---------------------------- MODULE Spec2Model ----------------------------
(***************************************************************************)
(* A model of the WebSocket frame-header codec (src/ws/util/header.rs) and *)
(* of the outbound message sender (src/ws/message/send.rs).                *)
(*                                                                         *)
(* Representation.                                                         *)
(*   - A byte is a number in 0..255.                                       *)
(*   - A u64 is a tuple of four 16-bit limbs, most significant first, so   *)
(*     that the full 64-bit width of a payload length is kept.             *)
(*   - Option<T> is a sequence: <<>> is None and <<x>> is Some(x).         *)
(***************************************************************************)
EXTENDS Integers, Sequences, FiniteSets, TLC

VARIABLES
    \* ---- header codec ----
    pc,          \* "write": nothing on the stream yet; "read": a header is being parsed; "done"
    header,      \* Option: the header whose encoding was put on the stream
    form,        \* how it was put there: "write_header", or a peer's "short" | "u16" | "u64"
    writer,      \* the bytes write_header wrote (the Vec<u8> writer)
    wres,        \* the value write_header returned ("" before the call)
    reader,      \* the bytes of the stream that read_u8 has not consumed yet
    dataframe,   \* the ReaderState handed to every read_header call
    ret,         \* what the last read_header call returned
    consumed,    \* number of stream bytes consumed by all read_header calls
    interrupted, \* TRUE once a read_header call of this parse returned an I/O error
    \* ---- message sender ----
    sender,      \* Option: the WebSocketSender, as its field `mask`
    stream,      \* the data frames written to the sender's stream, in order
    serializer,  \* Option: the live WebSocketFragmentSerializer, as its field `started`
    calls,       \* the calls made on the live serializer: <<function, message, succeeded>>
    ncalls,      \* number of send_message, send_fragment and finish calls made so far
    \* ---- server ----
    server,      \* Option: the Server, as its field `ssl_context`
    conns,       \* the connections the listener has handed out, in order
    log,         \* what each call of accept and next met and returned
    upgrades,    \* the connections whose WsUpgrade the caller holds
    invalids     \* the connections whose stream the caller holds in an InvalidConnection

codecVars == <<pc, header, form, writer, wres, reader, dataframe, ret, consumed, interrupted>>

senderVars == <<sender, stream, serializer, calls, ncalls>>

serverVars == <<server, conns, log, upgrades, invalids>>

vars == <<codecVars, senderVars, serverVars>>

-----------------------------------------------------------------------------
(* Bit operations on naturals.                                              *)

RECURSIVE BitAnd(_, _)
BitAnd(a, b) ==
    IF a = 0 \/ b = 0 THEN 0
    ELSE (a % 2) * (b % 2) + 2 * BitAnd(a \div 2, b \div 2)

RECURSIVE BitOr(_, _)
BitOr(a, b) ==
    IF a = 0 THEN b
    ELSE IF b = 0 THEN a
    ELSE (IF a % 2 = 1 \/ b % 2 = 1 THEN 1 ELSE 0) + 2 * BitOr(a \div 2, b \div 2)

RECURSIVE BitXor(_, _)
BitXor(a, b) ==
    IF a = 0 THEN b
    ELSE IF b = 0 THEN a
    ELSE ((a + b) % 2) + 2 * BitXor(a \div 2, b \div 2)

-----------------------------------------------------------------------------
(* Option<T>.                                                               *)

None == <<>>
Some(x) == <<x>>
is_none(o) == o = <<>>
is_some(o) == o # <<>>
unwrap(o) == o[1]

-----------------------------------------------------------------------------
(* u64 values as four 16-bit limbs, and the conversions the codec uses.     *)

\* a value below 2^16 widened to u64 (`x as u64`)
as_u64(n) == <<0, 0, 0, n>>

\* len <= n, for a bound n below 2^16
le_small(len, n) == len[1] = 0 /\ len[2] = 0 /\ len[3] = 0 /\ len[4] <= n

\* `len as u8`, `len as u16`: truncation to the low bits
as_u8(len) == len[4] % 256
as_u16(len) == len[4]

\* WriteBytesExt::write_u16::<BigEndian>, write_u64::<BigEndian>
write_u16(n) == <<n \div 256, n % 256>>
write_u64(len) ==
    write_u16(len[1]) \o write_u16(len[2]) \o write_u16(len[3]) \o write_u16(len[4])

\* mutant of read_u16: the two bytes taken in little-endian order
read_u16_le(buf) == buf[2] * 256 + buf[1]

\* BigEndian::read_u16(&buf), read_u64(&buf): the first 2 (8) bytes of buf
read_u16(buf) == buf[1] * 256 + buf[2]
read_u64(buf) ==
    <<buf[1] * 256 + buf[2], buf[3] * 256 + buf[4],
      buf[5] * 256 + buf[6], buf[7] * 256 + buf[8]>>

-----------------------------------------------------------------------------
(* DataFrameFlags.                                                          *)

FIN == 128
RSV1 == 64
RSV2 == 32
RSV3 == 16
AllFlags == BitOr(BitOr(FIN, RSV1), BitOr(RSV2, RSV3))

\* DataFrameFlags::from_bits_truncate: the bits that are no flag are dropped
from_bits_truncate(byte) == BitAnd(byte, AllFlags)
contains(flags, f) == BitAnd(flags, f) = f

\* DataFrameHeader
DataFrameHeader(flags, opcode, mask, len) ==
    [flags |-> flags, opcode |-> opcode, mask |-> mask, len |-> len]

-----------------------------------------------------------------------------
(* ReaderState.                                                             *)

ReaderState_new ==
    [flags |-> None, opcode |-> None, has_mask |-> FALSE, mask |-> <<>>,
     raw_len |-> <<>>, len_byte |-> None, len |-> None]

\* mutant of reset: the buffer of the extended length is not cleared
reset_keeps_raw_len(df) ==
    [flags |-> None, opcode |-> None, has_mask |-> FALSE, mask |-> <<>>,
     raw_len |-> df.raw_len, len_byte |-> None, len |-> None]

\* ReaderState::reset: every field back to its initial value
reset(df) ==
    [flags |-> None, opcode |-> None, has_mask |-> FALSE, mask |-> <<>>,
     raw_len |-> <<>>, len_byte |-> None, len |-> None]


-----------------------------------------------------------------------------
(* Results (WebSocketResult).                                               *)

Ok(x) == [kind |-> "Ok", msg |-> "", value |-> Some(x)]
Err(kind, msg) == [kind |-> kind, msg |-> msg, value |-> None]
NoResult == [kind |-> "", msg |-> "", value |-> None]

InvalidOpcode == Err("DataFrameError", "Invalid data frame opcode")
ControlTooLong == Err("DataFrameError", "Control frame length too long")
InvalidLength == Err("DataFrameError", "Invalid data frame length")
FragmentedControl == Err("ProtocolError", "Illegal fragmented control frame")
\* WebSocketError::IoError(why): would-block and end-of-stream alike
IoError == Err("IoError", "")

-----------------------------------------------------------------------------
(* write_header.  The writer is a Vec<u8>, whose writes do not fail.        *)

\* the first byte: 'FIN', 'RSV1', 'RSV2', 'RSV3' and 'opcode'
first_byte(h) == BitOr(h.flags, h.opcode)

\* the 'Payload len' field of the second byte
payload_len(len) ==
    IF le_small(len, 125) THEN as_u8(len)
    ELSE IF le_small(len, 65535) THEN 126
    ELSE 127

\* the second byte: 'MASK' and 'Payload len'
second_byte(h) == BitOr(IF is_some(h.mask) THEN 128 ELSE 0, payload_len(h.len))

\* mutant of extended_len: the 2-byte form starts one length too late
extended_len_from_127(len) ==
    IF ~le_small(len, 126) /\ le_small(len, 65535) THEN write_u16(as_u16(len))
    ELSE IF ~le_small(len, 65535) THEN write_u64(len)
    ELSE <<>>

\* 'Extended payload length'
extended_len(len) ==
    IF ~le_small(len, 125) /\ le_small(len, 65535) THEN write_u16(as_u16(len))
    ELSE IF ~le_small(len, 65535) THEN write_u64(len)
    ELSE <<>>

\* 'Masking-key'
masking_key(h) == IF is_some(h.mask) THEN unwrap(h.mask) ELSE <<>>

\* the opcode and control-length checks write_header makes before it writes
write_check(h) ==
    IF h.opcode > 15 THEN InvalidOpcode
    ELSE IF h.opcode >= 8 /\ ~le_small(h.len, 125) THEN ControlTooLong
    ELSE Ok(<<>>)

\* write_header(writer, header): the value returned and the bytes written
write_header(h) ==
    LET chk == write_check(h) IN
    IF chk.kind # "Ok" THEN [res |-> chk, bytes |-> <<>>]
    ELSE [res |-> Ok(<<>>),
          bytes |-> <<first_byte(h), second_byte(h)>>
                    \o extended_len(h.len) \o masking_key(h)]

-----------------------------------------------------------------------------
(* read_header.  A call is given the unread bytes of the stream, `input`,   *)
(* and the number `avail` of them that read_u8 delivers before it fails     *)
(* (would-block, or the end of the stream).  A cursor carries the           *)
(* ReaderState, the number of bytes this call has consumed and the value    *)
(* returned, if the call has returned.                                      *)

Cursor(df, n, out) == [df |-> df, n |-> n, out |-> out]
returned(c) == is_some(c.out)

\* mutant of io_return: the state is reset on an I/O error as well
io_return_reset(c) == Cursor(ReaderState_new, c.n, Some(IoError))

\* `return Err(WebSocketError::IoError(why))`: the state is left as it is
io_return(c) == Cursor(c.df, c.n, Some(IoError))

\* a semantic error: `dataframe.reset(); return Err(..)`
reset_return(c, err) == Cursor(reset(c.df), c.n, Some(err))

\* `while buf.len() < want { buf.push(reader.read_u8()?) }` on the field fld
RECURSIVE read_into(_, _, _, _, _)
read_into(c, fld, want, input, avail) ==
    IF Len(c.df[fld]) >= want THEN c
    ELSE IF c.n >= avail THEN io_return(c)
    ELSE read_into(Cursor([c.df EXCEPT ![fld] = Append(@, input[c.n + 1])], c.n + 1, None),
                   fld, want, input, avail)

\* the first byte of the header, read only if the flag entry is None
stage_flags(c, input, avail) ==
    IF is_some(c.df.flags) THEN c
    ELSE IF c.n >= avail THEN io_return(c)
    ELSE LET byte == input[c.n + 1] IN
         Cursor([c.df EXCEPT !.flags = Some(from_bits_truncate(byte)),
                             !.opcode = Some(BitAnd(byte, 15))],
                c.n + 1, None)

\* the length byte, read by every call, and the mask bit taken from it
stage_len_byte(c, input, avail) ==
    IF c.n >= avail THEN io_return(c)
    ELSE LET byte == input[c.n + 1] IN
         Cursor([c.df EXCEPT !.len_byte = Some(byte),
                             !.has_mask = (BitAnd(byte, 128) = 128)],
                c.n + 1, None)

\* the length of the payload, determined from the length byte if not known yet
stage_len(c, input, avail) ==
    IF is_some(c.df.len) THEN c
    ELSE LET ind == BitAnd(unwrap(c.df.len_byte), 127) IN
         IF ind <= 125 THEN Cursor([c.df EXCEPT !.len = Some(as_u64(ind))], c.n, None)
         ELSE IF ind = 126 THEN
             LET r == read_into(c, "raw_len", 2, input, avail) IN
             IF returned(r) THEN r
             ELSE LET len == as_u64(read_u16(r.df.raw_len)) IN
                  IF le_small(len, 125) THEN reset_return(r, InvalidLength)
                  ELSE Cursor([r.df EXCEPT !.len = Some(len)], r.n, None)
         ELSE
             LET r == read_into(c, "raw_len", 8, input, avail) IN
             IF returned(r) THEN r
             ELSE LET len == read_u64(r.df.raw_len) IN
                  IF le_small(len, 65535) THEN reset_return(r, InvalidLength)
                  ELSE Cursor([r.df EXCEPT !.len = Some(len)], r.n, None)

\* mutant of stage_control: the FIN check is missing
stage_control_no_fin(c) ==
    IF unwrap(c.df.opcode) >= 8 /\ ~le_small(unwrap(c.df.len), 125)
    THEN Cursor(ReaderState_new, c.n, Some(ControlTooLong))
    ELSE c

\* "Check for invalid state": the control-frame checks
stage_control(c) ==
    IF unwrap(c.df.opcode) >= 8 THEN
        IF ~le_small(unwrap(c.df.len), 125) THEN reset_return(c, ControlTooLong)
        ELSE IF ~contains(unwrap(c.df.flags), FIN) THEN reset_return(c, FragmentedControl)
        ELSE c
    ELSE c

\* the mask, if one exists, exactly 4 bytes
stage_mask(c, input, avail) ==
    IF c.df.has_mask THEN read_into(c, "mask", 4, input, avail) ELSE c

\* "Return the final state", and the reset that follows the block
stage_emit(c) ==
    LET h == DataFrameHeader(unwrap(c.df.flags), unwrap(c.df.opcode),
                             IF c.df.has_mask THEN Some(SubSeq(c.df.mask, 1, 4)) ELSE None,
                             unwrap(c.df.len)) IN
    Cursor(reset(c.df), c.n, Some(Ok(h)))

\* mutant of read_header: the mask is read before the control-frame checks
read_header_mask_first(df, input, avail) ==
    LET c1 == stage_flags(Cursor(df, 0, None), input, avail)
        c2 == IF returned(c1) THEN c1 ELSE stage_len_byte(c1, input, avail)
        c3 == IF returned(c2) THEN c2 ELSE stage_len(c2, input, avail)
        c4 == IF returned(c3) THEN c3 ELSE stage_mask(c3, input, avail)
        c5 == IF returned(c4) THEN c4 ELSE stage_control(c4)
    IN  IF returned(c5) THEN c5 ELSE stage_emit(c5)

\* read_header(reader, dataframe): the ReaderState it leaves, the number of
\* bytes it consumed and the value it returned
read_header(df, input, avail) ==
    LET c1 == stage_flags(Cursor(df, 0, None), input, avail)
        c2 == IF returned(c1) THEN c1 ELSE stage_len_byte(c1, input, avail)
        c3 == IF returned(c2) THEN c2 ELSE stage_len(c2, input, avail)
        c4 == IF returned(c3) THEN c3 ELSE stage_control(c3)
        c5 == IF returned(c4) THEN c4 ELSE stage_mask(c4, input, avail)
    IN  IF returned(c5) THEN c5 ELSE stage_emit(c5)

-----------------------------------------------------------------------------
(* The inputs of the codec: headers handed to write_header, and frames a    *)
(* remote peer puts on the stream in any encoding of the length.            *)

\* number of stream bytes that follow the header (the start of its payload)
PayloadLen == 3

FlagsSet == {0, FIN, FIN + RSV1, AllFlags}
Opcodes == {0, 2, 3, 9, 15}
Masks == {None, Some(<<2, 4, 8, 16>>), Some(<<129, 254, 0, 126>>)}
\* 0, 125, 126, 512, 65535, 65536, 2^32 + 1, 2^63 - 1, 2^64 - 1
Lens == {as_u64(0), as_u64(125), as_u64(126), as_u64(512), as_u64(65535),
         <<0, 0, 1, 0>>, <<0, 1, 0, 1>>, <<32767, 65535, 65535, 65535>>,
         <<65535, 65535, 65535, 65535>>}

\* what write_header may be handed: the opcode field is a u8, 16 stands for
\* the values above 0xF
Headers ==
    {DataFrameHeader(f, o, m, l) : f \in FlagsSet, o \in Opcodes \cup {16}, m \in Masks, l \in Lens}

PeerHeaders ==
    {DataFrameHeader(f, o, m, l) : f \in FlagsSet, o \in Opcodes, m \in Masks, l \in Lens}

Forms == {"short", "u16", "u64"}

\* the lengths a form can carry: 7 bits (0..125), 16 bits, 64 bits
fits(len, f) ==
    CASE f = "short" -> le_small(len, 125)
      [] f = "u16" -> le_small(len, 65535)
      [] f = "u64" -> TRUE

\* the bytes of a frame header as a peer may send it, the length in form f
peer_frame(h, f) ==
    LET ind == CASE f = "short" -> h.len[4] [] f = "u16" -> 126 [] f = "u64" -> 127
        ext == CASE f = "short" -> <<>>
                 [] f = "u16" -> <<h.len[4] \div 256, h.len[4] % 256>>
                 [] f = "u64" -> <<h.len[1] \div 256, h.len[1] % 256,
                                   h.len[2] \div 256, h.len[2] % 256,
                                   h.len[3] \div 256, h.len[3] % 256,
                                   h.len[4] \div 256, h.len[4] % 256>>
    IN  <<h.flags + h.opcode, (IF h.mask = None THEN 0 ELSE 128) + ind>>
        \o ext \o (IF h.mask = None THEN <<>> ELSE h.mask[1])

\* the bytes that follow the header on the stream
Payload == [i \in 1..PayloadLen |-> (37 * i) % 256]

drop(s, n) == SubSeq(s, n + 1, Len(s))

-----------------------------------------------------------------------------
(* The codec as a state machine: a header is written to the stream (by      *)
(* write_header or by the peer), then read_header is called, with the same  *)
(* ReaderState, until it returns something other than an I/O error.         *)

CodecInit ==
    /\ pc = "write"
    /\ header = None
    /\ form = ""
    /\ writer = <<>>
    /\ wres = NoResult
    /\ reader = <<>>
    /\ dataframe = ReaderState_new
    /\ ret = NoResult
    /\ consumed = 0
    /\ interrupted = FALSE

\* write_header(&mut writer, h); what it wrote is what the reader will see
WriteHeader ==
    /\ pc = "write"
    /\ \E h \in Headers :
        LET w == write_header(h) IN
        /\ header' = Some(h)
        /\ form' = "write_header"
        /\ writer' = w.bytes
        /\ wres' = w.res
        /\ reader' = IF w.res.kind = "Ok" THEN w.bytes \o Payload ELSE <<>>
        /\ pc' = IF w.res.kind = "Ok" THEN "read" ELSE "done"
    /\ UNCHANGED <<dataframe, ret, consumed, interrupted>>
    /\ UNCHANGED <<senderVars, serverVars>>

\* the peer sends a frame
PeerWrite ==
    /\ pc = "write"
    /\ \E h \in PeerHeaders, f \in Forms :
        /\ fits(h.len, f)
        /\ header' = Some(h)
        /\ form' = f
        /\ reader' = peer_frame(h, f) \o Payload
    /\ pc' = "read"
    /\ UNCHANGED <<writer, wres, dataframe, ret, consumed, interrupted>>
    /\ UNCHANGED <<senderVars, serverVars>>

\* one call of read_header(&mut reader, &mut dataframe), during which the
\* stream delivers avail bytes and then fails
ReadHeader ==
    /\ pc = "read"
    /\ \E avail \in 0..Len(reader) :
        LET r == read_header(dataframe, reader, avail) IN
        /\ dataframe' = r.df
        /\ reader' = drop(reader, r.n)
        /\ consumed' = consumed + r.n
        /\ ret' = unwrap(r.out)
        /\ interrupted' = (interrupted \/ unwrap(r.out) = IoError)
        /\ pc' = IF unwrap(r.out) = IoError THEN "read" ELSE "done"
    /\ UNCHANGED <<header, form, writer, wres>>
    /\ UNCHANGED <<senderVars, serverVars>>

\* the connection goes on to its next frame, with the same ReaderState
NextFrame ==
    /\ pc = "done"
    /\ pc' = "write"
    /\ header' = None
    /\ form' = ""
    /\ writer' = <<>>
    /\ wres' = NoResult
    /\ reader' = <<>>
    /\ ret' = NoResult
    /\ consumed' = 0
    /\ interrupted' = FALSE
    /\ UNCHANGED dataframe
    /\ UNCHANGED <<senderVars, serverVars>>

SenderInit ==
    /\ sender = None
    /\ stream = <<>>
    /\ serializer = None
    /\ calls = <<>>
    /\ ncalls = 0

\* no server is bound yet
ServerInit ==
    /\ server = None
    /\ conns = <<>>
    /\ log = <<>>
    /\ upgrades = {}
    /\ invalids = {}

Init == CodecInit /\ SenderInit /\ ServerInit

Next ==
    \/ WriteHeader
    \/ PeerWrite
    \/ ReadHeader
    \/ NextFrame

Spec == Init /\ [][Next]_vars

-----------------------------------------------------------------------------
(* The message sender (send.rs).                                            *)

\* bound: the number of send_message, send_fragment and finish calls of a run
MaxCalls == 3

\* WebSocketMessage: Text(String), Binary(Vec<u8>), Close, Ping, Pong
Message(kind, payload) == [kind |-> kind, payload |-> payload]
Messages ==
    {Message("Text", <<72, 105>>), Message("Binary", <<1, 2, 3, 4, 5>>),
     Message("Close", <<>>), Message("Ping", <<>>), Message("Pong", <<>>)}

\* the values gen_key() may return
Keys == {<<55, 250, 33, 61>>, <<0, 255, 0, 255>>}

\* mask_data(key, data): each byte XOR-ed with key[i mod 4]
mask_data(key, data) ==
    [i \in 1..Len(data) |-> BitXor(data[i], key[((i - 1) % 4) + 1])]

\* mutant of message_to_dataframe: the frame gets a masking key whatever `mask` is
message_to_dataframe_always_key(message, mask, finished, key) ==
    LET data0 == IF message.kind \in {"Text", "Binary"} THEN message.payload ELSE <<>>
        data == IF mask THEN mask_data(key, data0) ELSE data0
    IN  [finished |-> finished, reserved |-> <<FALSE, FALSE, FALSE>>, opcode |-> message.kind,
         mask |-> Some(key), length |-> Len(data), data |-> data]

\* message_to_dataframe(message, mask, finished), with key the value gen_key() returns
message_to_dataframe(message, mask, finished, key) ==
    LET masking_key_ == IF mask THEN Some(key) ELSE None
        opcode == CASE message.kind = "Text" -> "Text"
                    [] message.kind = "Binary" -> "Binary"
                    [] message.kind = "Close" -> "Close"
                    [] message.kind = "Ping" -> "Ping"
                    [] message.kind = "Pong" -> "Pong"
        data0 == IF message.kind \in {"Text", "Binary"} THEN message.payload ELSE <<>>
        data == IF mask THEN mask_data(unwrap(masking_key_), data0) ELSE data0
    IN  [finished |-> finished, reserved |-> <<FALSE, FALSE, FALSE>>, opcode |-> opcode,
         mask |-> masking_key_, length |-> Len(data), data |-> data]

\* WebSocketSender::send_message: the data frame handed to the stream
send_message(message, mask, key) == message_to_dataframe(message, mask, TRUE, key)

\* mutant of send_fragment: `started` is not set by the first fragment
send_fragment_not_started(started, message, mask, key) ==
    LET dataframe_ == message_to_dataframe(message, mask, FALSE, key) IN
    IF started
    THEN [started |-> started, dataframe |-> [dataframe_ EXCEPT !.opcode = "Continuation"]]
    ELSE [started |-> started, dataframe |-> dataframe_]

\* WebSocketFragmentSerializer::send_fragment: the new value of `started`
\* and the data frame handed to the stream
send_fragment(started, message, mask, key) ==
    LET dataframe_ == message_to_dataframe(message, mask, FALSE, key) IN
    IF started
    THEN [started |-> started, dataframe |-> [dataframe_ EXCEPT !.opcode = "Continuation"]]
    ELSE [started |-> TRUE, dataframe |-> dataframe_]

\* mutant of finish: `started` is left as it is
finish_keeps_started(started, message, mask, key) ==
    LET dataframe_ == message_to_dataframe(message, mask, TRUE, key) IN
    IF started
    THEN [started |-> started, dataframe |-> [dataframe_ EXCEPT !.opcode = "Continuation"]]
    ELSE [started |-> started, dataframe |-> dataframe_]

\* mutant of finish: the opcode is the message's own, started or not
finish_own_opcode(started, message, mask, key) ==
    [started |-> FALSE, dataframe |-> message_to_dataframe(message, mask, TRUE, key)]

\* WebSocketFragmentSerializer::finish
finish(started, message, mask, key) ==
    LET dataframe_ == message_to_dataframe(message, mask, TRUE, key) IN
    IF started
    THEN [started |-> FALSE, dataframe |-> [dataframe_ EXCEPT !.opcode = "Continuation"]]
    ELSE [started |-> started, dataframe |-> dataframe_]

\* stream.write_websocket_dataframe(dataframe): the frame is on the stream if
\* the write succeeded
written(ok, dataframe_) == IF ok THEN Append(stream, dataframe_) ELSE stream

\* new_sender(stream, mask)
NewSender ==
    /\ sender = None
    /\ \E mask \in BOOLEAN : sender' = Some(mask)
    /\ UNCHANGED <<stream, serializer, calls, ncalls>>
    /\ UNCHANGED <<codecVars, serverVars>>

\* sender.send_message(&message); the sender is not borrowed by a serializer
SendMessage ==
    /\ is_some(sender) /\ is_none(serializer)
    /\ ncalls < MaxCalls
    /\ ncalls' = ncalls + 1
    /\ \E message \in Messages, key \in Keys, ok \in BOOLEAN :
        stream' = written(ok, send_message(message, unwrap(sender), key))
    /\ UNCHANGED <<sender, serializer, calls>>
    /\ UNCHANGED <<codecVars, serverVars>>

\* sender.fragment(): a serializer that mutably borrows the sender
Fragment ==
    /\ is_some(sender) /\ is_none(serializer)
    /\ serializer' = Some(FALSE)
    /\ calls' = <<>>
    /\ UNCHANGED <<sender, stream, ncalls>>
    /\ UNCHANGED <<codecVars, serverVars>>

\* serializer.send_fragment(&message)
SendFragment ==
    /\ is_some(serializer)
    /\ ncalls < MaxCalls
    /\ ncalls' = ncalls + 1
    /\ \E message \in Messages, key \in Keys, ok \in BOOLEAN :
        LET r == send_fragment(unwrap(serializer), message, unwrap(sender), key) IN
        /\ serializer' = Some(r.started)
        /\ stream' = written(ok, r.dataframe)
        /\ calls' = Append(calls, <<"send_fragment", message.kind, ok>>)
    /\ UNCHANGED sender
    /\ UNCHANGED <<codecVars, serverVars>>

\* serializer.finish(&message)
Finish ==
    /\ is_some(serializer)
    /\ ncalls < MaxCalls
    /\ ncalls' = ncalls + 1
    /\ \E message \in Messages, key \in Keys, ok \in BOOLEAN :
        LET r == finish(unwrap(serializer), message, unwrap(sender), key) IN
        /\ serializer' = Some(r.started)
        /\ stream' = written(ok, r.dataframe)
        /\ calls' = Append(calls, <<"finish", message.kind, ok>>)
    /\ UNCHANGED sender
    /\ UNCHANGED <<codecVars, serverVars>>

\* the serializer goes out of scope, which ends its borrow of the sender
DropSerializer ==
    /\ is_some(serializer)
    /\ serializer' = None
    /\ calls' = <<>>
    /\ UNCHANGED <<sender, stream, ncalls>>
    /\ UNCHANGED <<codecVars, serverVars>>

NextSender ==
    \/ NewSender
    \/ SendMessage
    \/ Fragment
    \/ SendFragment
    \/ Finish
    \/ DropSerializer

SpecSender == Init /\ [][NextSender]_vars

-----------------------------------------------------------------------------
(* Properties of the header codec, checked under Spec.                      *)

\* read_header has returned something other than an I/O error
Completed == pc = "done" /\ ret # NoResult

\* the header on the stream was written by write_header, which accepted it
Written == form = "write_header" /\ wres.kind = "Ok"

\* the header on the stream was sent by the peer
FromPeer == form \in Forms

IsControl(h) == h.opcode >= 8 /\ h.opcode <= 15

\* byte k (1..8, most significant first) of a u64
be_byte(len, k) ==
    IF k % 2 = 1 THEN len[(k + 1) \div 2] \div 256 ELSE len[k \div 2] % 256

\* the length indicator of the wire format: 0..125, 126 or 127
indicator(len) ==
    IF len[1] = 0 /\ len[2] = 0 /\ len[3] = 0
    THEN (IF len[4] < 126 THEN len[4] ELSE 126)
    ELSE 127

\* the header bytes of the wire format (RFC 6455, section 5.2)
wire_format(h) ==
    LET ind == indicator(h.len) IN
    <<BitAnd(h.flags, 240) + BitAnd(h.opcode, 15),
      (IF h.mask # None THEN 128 ELSE 0) + ind>>
    \o (IF ind = 126 THEN <<be_byte(h.len, 7), be_byte(h.len, 8)>>
        ELSE IF ind = 127 THEN [k \in 1..8 |-> be_byte(h.len, k)]
        ELSE <<>>)
    \o (IF h.mask # None THEN h.mask[1] ELSE <<>>)

\* the length of the header on the stream is not in its shortest encoding
NonMinimal ==
    \/ form = "u16" /\ le_small(unwrap(header).len, 125)
    \/ form = "u64" /\ le_small(unwrap(header).len, 65535)

\* a is an initial part of b
IsPrefix(a, b) == Len(a) <= Len(b) /\ SubSeq(b, 1, Len(a)) = a

(* C1: restartable parsing.  On the bytes write_header produced for a       *)
(* header that one uninterrupted call reads back, read_header, called again *)
(* and again with the same ReaderState while it returns I/O errors, finally *)
(* returns what the uninterrupted call returns, and the calls have consumed *)
(* exactly the header's bytes.                                              *)
C1_Restartable ==
    LET u == read_header(ReaderState_new, writer \o Payload, Len(writer)) IN
    (Completed /\ Written /\ unwrap(u.out).kind = "Ok") =>
        /\ ret = unwrap(u.out)
        /\ consumed = Len(writer)

(* C2, as claimed: every header write_header accepts (len below 2^63) is    *)
(* read back, by one call with a fresh ReaderState, as an equal header.     *)
C2_RoundTrip ==
    (Completed /\ Written /\ ~interrupted /\ unwrap(header).len[1] < 32768) =>
        ret = Ok(unwrap(header))

(* C2, amended: every header write_header accepts, other than a control     *)
(* opcode with FIN clear, is read back by one call with a fresh ReaderState *)
(* as an equal header, the call consuming exactly the bytes written; a      *)
(* control opcode with FIN clear is answered with the protocol error.       *)
C2_RoundTripUnlessFragmentedControl ==
    (Completed /\ Written /\ ~interrupted) =>
        LET h == unwrap(header) IN
        IF IsControl(h) /\ ~contains(h.flags, FIN)
        THEN ret = FragmentedControl
        ELSE ret = Ok(h) /\ consumed = Len(writer)

C2_Witness ==
    /\ Completed /\ Written /\ ~interrupted
    /\ ret.kind = "Ok"
    /\ unwrap(header).mask # None
    /\ unwrap(header).len = <<32767, 65535, 65535, 65535>>
    /\ unwrap(header).flags = FIN + RSV1

(* C3: the bytes write_header writes for a header it accepts are exactly    *)
(* those of the wire format: byte 0 the flags and the opcode, byte 1 the    *)
(* mask bit and the length indicator, then the 2 or 8 big-endian bytes of   *)
(* the extended length, then the 4 bytes of the mask, if any.               *)
C3_WireEncoding ==
    Written => writer = wire_format(unwrap(header))

C3_Witness ==
    /\ Written
    /\ Len(writer) = 14
    /\ unwrap(header).len = <<0, 1, 0, 1>>
    /\ writer[5] = 0 /\ writer[6] = 1 /\ writer[10] = 1

(* C4: a header whose length is not in its shortest encoding is never       *)
(* answered with anything but the error "Invalid data frame length".        *)
C4_MinimalLength ==
    (Completed /\ FromPeer /\ NonMinimal) => ret = InvalidLength

(* C5: a control opcode with len > 125 is refused by write_header, with     *)
(* "Control frame length too long" and nothing written, and is never        *)
(* answered with a header by read_header; with len <= 125 neither refuses   *)
(* on account of the length.                                                *)
C5_ControlLength ==
    /\ (form = "write_header" /\ IsControl(unwrap(header))) =>
            IF le_small(unwrap(header).len, 125)
            THEN wres.kind = "Ok"
            ELSE wres = ControlTooLong /\ writer = <<>>
    /\ (Completed /\ FromPeer /\ IsControl(unwrap(header))) =>
            IF le_small(unwrap(header).len, 125)
            THEN form = "short" => ret \notin {ControlTooLong, InvalidLength}
            ELSE ret.kind # "Ok"

(* C6, as claimed: a control opcode with FIN clear, its length in the       *)
(* shortest encoding, is answered, by one call that has all the bytes, with *)
(* "Illegal fragmented control frame".                                      *)
C6_FragmentedControlError ==
    (Completed /\ ~interrupted /\ form # "" /\ ~NonMinimal /\ IsControl(unwrap(header))
        /\ ~contains(unwrap(header).flags, FIN)) =>
        ret = FragmentedControl

(* C6, amended: a control opcode with FIN clear is never answered with a    *)
(* header but with an error: "Illegal fragmented control frame", unless a   *)
(* check of the length fails first ("Invalid data frame length", "Control   *)
(* frame length too long"); one call that has all the bytes of a header     *)
(* with len <= 125 in its shortest form returns the former.  Every header   *)
(* returned with opcode >= 8 has FIN set and len <= 125.                    *)
C6_FragmentedControlRejected ==
    /\ (Completed /\ form # "" /\ IsControl(unwrap(header))
            /\ ~contains(unwrap(header).flags, FIN)) =>
        /\ ret \in {FragmentedControl, ControlTooLong, InvalidLength}
        /\ (~interrupted /\ form \in {"short", "write_header"}) => ret = FragmentedControl
    /\ (Completed /\ ret.kind = "Ok" /\ unwrap(ret.value).opcode >= 8) =>
        /\ contains(unwrap(ret.value).flags, FIN)
        /\ le_small(unwrap(ret.value).len, 125)

C6_Witness ==
    /\ Completed /\ FromPeer /\ interrupted
    /\ unwrap(header).opcode = 9
    /\ unwrap(header).flags = 0
    /\ ret = FragmentedControl
    /\ consumed > 2

(* C7: when read_header returns Ok or a semantic error, the ReaderState is  *)
(* the empty state of ReaderState::new(), and stays so until the next call. *)
C7_ResetOnCompletion ==
    (pc \in {"done", "write"}) => dataframe = ReaderState_new

C7_Witness ==
    /\ Completed /\ interrupted
    /\ ret = ControlTooLong
    /\ consumed = 10
    /\ dataframe = ReaderState_new

(* C8: a call of read_header that returns an I/O error does not reset the   *)
(* ReaderState: the flags, the opcode and the resolved length keep their    *)
(* values, the bytes accumulated for the extended length and the mask are   *)
(* still there, and the bytes the call consumed are in the state.           *)
C8_RetainedOnIoError ==
    [][(pc = "read" /\ pc' = "read" /\ ret' = IoError) =>
        /\ is_some(dataframe.flags) =>
               dataframe'.flags = dataframe.flags /\ dataframe'.opcode = dataframe.opcode
        /\ is_some(dataframe.len) => dataframe'.len = dataframe.len
        /\ IsPrefix(dataframe.raw_len, dataframe'.raw_len)
        /\ IsPrefix(dataframe.mask, dataframe'.mask)
        /\ consumed' > 0 => is_some(dataframe'.flags)
        /\ Len(dataframe'.raw_len) + Len(dataframe'.mask)
              >= Len(dataframe.raw_len) + Len(dataframe.mask) + (consumed' - consumed) - 2
      ]_vars

C8_Witness ==
    /\ pc = "read" /\ ret = IoError
    /\ dataframe.flags = Some(FIN) /\ dataframe.opcode = Some(2)
    /\ Len(dataframe.raw_len) = 8
    /\ dataframe.len = Some(<<0, 1, 0, 1>>)
    /\ Len(dataframe.mask) = 2

-----------------------------------------------------------------------------
(* Properties of the message sender, checked under SpecSender.              *)

IsData(kind) == kind \in {"Text", "Binary"}

\* the calls of the live serializer are n >= 1 successful send_fragment
\* calls followed by one successful finish call, all on data messages
FragmentedRun ==
    /\ is_some(serializer)
    /\ Len(calls) >= 2
    /\ \A i \in 1..Len(calls) :
        /\ calls[i][1] = (IF i = Len(calls) THEN "finish" ELSE "send_fragment")
        /\ IsData(calls[i][2])
        /\ calls[i][3]

\* a fragmented message is in progress after the frames fs: a frame with FIN
\* clear was written and no Continuation frame with FIN set after it
RECURSIVE InProgress(_)
InProgress(fs) ==
    IF fs = <<>> THEN FALSE
    ELSE LET f == fs[Len(fs)] IN
         IF ~f.finished THEN TRUE
         ELSE IF f.opcode = "Continuation" THEN FALSE
         ELSE InProgress(SubSeq(fs, 1, Len(fs) - 1))

(* C9: the frames written by n >= 1 successful send_fragment calls and one  *)
(* successful finish call on data messages, on a fresh serializer, are: the *)
(* first with the opcode of the first message and FIN clear, the next n - 1 *)
(* with opcode Continuation and FIN clear, the last with opcode             *)
(* Continuation and FIN set.                                                *)
C9_FragmentSequence ==
    FragmentedRun =>
        LET n == Len(calls) - 1
            base == Len(stream) - Len(calls)
        IN  /\ base >= 0
            /\ stream[base + 1].opcode = calls[1][2] /\ ~stream[base + 1].finished
            /\ \A i \in 2..n :
                stream[base + i].opcode = "Continuation" /\ ~stream[base + i].finished
            /\ stream[base + n + 1].opcode = "Continuation" /\ stream[base + n + 1].finished

C9_Witness ==
    /\ FragmentedRun
    /\ Len(calls) = 3
    /\ calls[1][2] = "Binary" /\ calls[2][2] = "Text" /\ calls[3][2] = "Text"
    /\ stream[1].opcode = "Binary"

(* C10: no frame with opcode Text or Binary is written while a fragmented   *)
(* message is in progress, that is after a frame with FIN clear and before  *)
(* the Continuation frame with FIN set that ends it.  Stated of the runs in *)
(* which every write succeeded.                                             *)
C10_StrictlySerial ==
    (ncalls = Len(stream)) =>
        \A i \in 1..Len(stream) :
            IsData(stream[i].opcode) => ~InProgress(SubSeq(stream, 1, i - 1))

-----------------------------------------------------------------------------
(* Properties of the frames the sender writes, checked under SpecSender.    *)

ControlKinds == {"Close", "Ping", "Pong"}

\* the number of the first i calls of the live serializer whose write succeeded
OkCount(i) == Cardinality({j \in 1..i : calls[j][3]})

\* the frame that call i of the live serializer wrote (its write succeeded):
\* the frames of the live serializer are the last ones of the stream
FrameOf(i) == stream[Len(stream) - OkCount(Len(calls)) + OkCount(i)]

(* C11: every frame written for a Close, Ping or Pong message has FIN set   *)
(* and carries the control opcode of the message, and no frame with a       *)
(* control opcode and FIN clear is on the stream.                           *)
C11_ControlSingleFin ==
    /\ \A i \in 1..Len(stream) :
        stream[i].opcode \in ControlKinds => stream[i].finished
    /\ is_some(serializer) =>
        \A i \in 1..Len(calls) :
            (calls[i][3] /\ calls[i][2] \in ControlKinds) =>
                FrameOf(i).finished /\ FrameOf(i).opcode = calls[i][2]

\* a XOR b for bytes, bit by bit
Xor8(a, b) ==
    LET bit(x, k) == (x \div (2 ^ k)) % 2 IN
    LET d(k) == IF bit(a, k) = bit(b, k) THEN 0 ELSE 2 ^ k IN
    d(0) + d(1) + d(2) + d(3) + d(4) + d(5) + d(6) + d(7)

\* the bytes of a message: the payload of Text and Binary, nothing otherwise
MessageBytes(m) == IF m.kind \in {"Text", "Binary"} THEN m.payload ELSE <<>>

\* frame f carries the bytes of message m as the role of the sender demands
CarriesAs(f, m, mask) ==
    IF mask
    THEN /\ is_some(f.mask) /\ Len(unwrap(f.mask)) = 4
         /\ unwrap(f.mask) \in Keys
         /\ Len(f.data) = Len(MessageBytes(m))
         /\ \A i \in 1..Len(f.data) :
               f.data[i] = Xor8(MessageBytes(m)[i], unwrap(f.mask)[((i - 1) % 4) + 1])
    ELSE f.mask = None /\ f.data = MessageBytes(m)

(* C12: every frame a call writes carries a 4-byte masking key exactly if   *)
(* the sender was created with mask = true; it carries the bytes of the     *)
(* message of that call, XOR-ed with key[i mod 4] under a key gen_key       *)
(* returned if masked, verbatim and without key if not.                     *)
C12_MaskFollowsRole ==
    [][(Len(stream') = Len(stream) + 1) =>
        LET f == stream'[Len(stream')] IN
        /\ is_some(f.mask) <=> unwrap(sender)
        /\ \E m \in Messages :
            /\ f.opcode \in {m.kind, "Continuation"}
            /\ CarriesAs(f, m, unwrap(sender))
        /\ f.length = Len(f.data)
        /\ SubSeq(stream', 1, Len(stream)) = stream
      ]_vars

C12_Witness ==
    /\ sender = Some(TRUE)
    /\ Len(stream) = 2
    /\ stream[1].mask = Some(<<55, 250, 33, 61>>)
    /\ stream[2].mask = Some(<<0, 255, 0, 255>>)
    /\ stream[1].data = <<127, 147>>
    /\ stream[2].data = <<1, 253, 3, 251, 5>>

-----------------------------------------------------------------------------
(* Further properties of the header codec, checked under Spec.              *)

\* Continuation, Text, Binary, Close, Ping, Pong
DefinedOpcodes == {0, 1, 2, 8, 9, 10}

(* C13: a header whose opcode is none of Continuation, Text, Binary, Close, *)
(* Ping, Pong is answered with an error by read_header (here: by one call   *)
(* that has all the bytes), and no header returned has such an opcode.      *)
C13_ReservedOpcodeRejected ==
    (Completed /\ ~interrupted /\ form # "") =>
        /\ unwrap(header).opcode \notin DefinedOpcodes => ret.kind # "Ok"
        /\ ret.kind = "Ok" => unwrap(ret.value).opcode \in DefinedOpcodes

(* C14: a header in which RSV1, RSV2 or RSV3 is set is answered with a      *)
(* protocol error by read_header (here: by one call that has all the        *)
(* bytes), and no header returned has a reserved bit in its flags.          *)
C14_ReservedBitsRejected ==
    (Completed /\ ~interrupted /\ form # "") =>
        /\ BitAnd(unwrap(header).flags, RSV1 + RSV2 + RSV3) # 0 => ret.kind = "ProtocolError"
        /\ ret.kind = "Ok" => BitAnd(unwrap(ret.value).flags, RSV1 + RSV2 + RSV3) = 0

(* C16: when write_header writes an 8-byte extended length (indicator 127)  *)
(* the most significant bit of those 8 bytes is zero.                       *)
C16_HighBitZero ==
    (Written /\ BitAnd(writer[2], 127) = 127) => writer[3] < 128


\* the number of bytes of the header that is on the stream
FrameLen ==
    IF form = "write_header" THEN Len(writer) ELSE Len(peer_frame(unwrap(header), form))

\* an error of the control-frame checks
ControlErrors == {FragmentedControl, ControlTooLong}

(* C17: the stages of read_header complete in the order byte 0, byte 1,     *)
(* extended length, masking key, control-frame validation, emit: when a     *)
(* masked control frame fails the control-frame validation, the error is    *)
(* returned only after the four bytes of the masking key have been read.    *)
C17_MaskBeforeControlCheck ==
    (Completed /\ ~interrupted /\ form # "" /\ unwrap(header).mask # None
        /\ ret \in ControlErrors) =>
        consumed = FrameLen

(* C17, amended: the stages complete in the order byte 0, byte 1, extended  *)
(* length, control-frame validation, masking key, emit.  Between calls, a   *)
(* ReaderState that holds bytes of the extended length holds byte 0 and     *)
(* byte 1, and one that holds bytes of the masking key holds a length and,  *)
(* for a control opcode, FIN and a length of at most 125.  An uninterrupted *)
(* call that fails the control-frame validation has consumed the header up  *)
(* to, and not including, the masking key; one that returns a header has    *)
(* consumed all of it.                                                      *)
C17_ControlCheckBeforeMask ==
    /\ (pc = "read" /\ dataframe.raw_len # <<>>) =>
        is_some(dataframe.flags) /\ is_some(dataframe.len_byte)
    /\ (pc = "read" /\ dataframe.mask # <<>>) =>
        /\ is_some(dataframe.flags) /\ is_some(dataframe.len)
        /\ unwrap(dataframe.opcode) >= 8 =>
            /\ contains(unwrap(dataframe.flags), FIN)
            /\ le_small(unwrap(dataframe.len), 125)
    /\ (Completed /\ ~interrupted /\ form # "" /\ ret \in ControlErrors) =>
        consumed = FrameLen - (IF unwrap(header).mask # None THEN 4 ELSE 0)
    /\ (Completed /\ ~interrupted /\ form # "" /\ ret.kind = "Ok") =>
        consumed = FrameLen

\* a masked Ping with FIN clear: the error is returned after two bytes, the
\* masking key is still on the stream
C17_Witness ==
    /\ Completed /\ ~interrupted /\ FromPeer
    /\ unwrap(header).opcode = 9
    /\ unwrap(header).mask = Some(<<2, 4, 8, 16>>)
    /\ ret = FragmentedControl
    /\ consumed = 2
    /\ reader = <<2, 4, 8, 16>> \o Payload

-----------------------------------------------------------------------------
(* Further properties of the sender, checked under SpecSender.              *)

\* the step is a call of fn on the serializer
IsCall(fn) == Len(calls') = Len(calls) + 1 /\ calls'[Len(calls')][1] = fn

\* no send_fragment precedes the call on the serializer since its last finish
Idle == calls = <<>> \/ calls[Len(calls)][1] = "finish"

(* C18: after every finish call, whether its write succeeded or not, the    *)
(* started flag is false; a finish with no preceding send_fragment writes   *)
(* one frame, with the opcode of its message and FIN set; the first         *)
(* send_fragment after a finish writes a frame with the opcode of its       *)
(* message, not Continuation, and FIN clear.                                *)
C18_IdleAfterFinish ==
    [][LET call == calls'[Len(calls')]
           f == stream'[Len(stream')] IN
       /\ IsCall("finish") =>
           /\ serializer' = Some(FALSE)
           /\ Len(stream') = Len(stream) + (IF call[3] THEN 1 ELSE 0)
           /\ (call[3] /\ Idle) => f.opcode = call[2] /\ f.finished
       /\ (IsCall("send_fragment") /\ calls # <<>> /\ Idle) =>
           /\ serializer' = Some(TRUE)
           /\ call[3] =>
               /\ Len(stream') = Len(stream) + 1
               /\ f.opcode = call[2] /\ ~f.finished
      ]_vars

\* a finish whose write failed, a finish on the idle serializer, and the
\* first fragment after it
C18_Witness ==
    /\ serializer = Some(TRUE)
    /\ calls = <<<<"finish", "Text", FALSE>>, <<"finish", "Binary", TRUE>>,
                 <<"send_fragment", "Text", TRUE>>>>
    /\ Len(stream) = 2
    /\ stream[1].opcode = "Binary" /\ stream[1].finished
    /\ stream[2].opcode = "Text" /\ ~stream[2].finished

\* the first call on the serializer was a send_fragment whose write failed
FirstFragmentFailed ==
    is_some(serializer) /\ calls # <<>> /\ calls[1][1] = "send_fragment" /\ ~calls[1][3]

\* no finish among the calls before the i-th
NoFinishBefore(i) == \A j \in 1..(i - 1) : calls[j][1] # "finish"

(* C19: when the write of the first fragment returns an I/O error the       *)
(* serializer stays started, and every later send_fragment or finish on it  *)
(* writes a Continuation frame.                                             *)
C19_AlwaysContinuation ==
    FirstFragmentFailed =>
        \A i \in 2..Len(calls) : calls[i][3] => FrameOf(i).opcode = "Continuation"

(* C19, amended: when the write of the first fragment returns an I/O error  *)
(* the serializer is started although no frame was written, and every later *)
(* send_fragment up to the next finish, and that finish, writes a           *)
(* Continuation frame (FIN set by the finish alone); the finish ends the    *)
(* started state, and the call after it writes the opcode of its message.   *)
C19_ContinuationUntilFinish ==
    FirstFragmentFailed =>
        /\ NoFinishBefore(Len(calls) + 1) => serializer = Some(TRUE)
        /\ Len(calls) = 1 => (ncalls = 1 => stream = <<>>)
        /\ \A i \in 2..Len(calls) :
            /\ (calls[i][3] /\ NoFinishBefore(i)) =>
                /\ FrameOf(i).opcode = "Continuation"
                /\ FrameOf(i).finished = (calls[i][1] = "finish")
            /\ (calls[i][3] /\ calls[i - 1][1] = "finish") =>
                FrameOf(i).opcode = calls[i][2]

\* the failed first fragment, a second fragment and the finish: two
\* Continuation frames and no frame with the opcode of the message
C19_Witness ==
    /\ calls = <<<<"send_fragment", "Text", FALSE>>, <<"send_fragment", "Text", TRUE>>,
                 <<"finish", "Text", TRUE>>>>
    /\ serializer = Some(FALSE)
    /\ Len(stream) = 2
    /\ stream[1].opcode = "Continuation" /\ ~stream[1].finished
    /\ stream[2].opcode = "Continuation" /\ stream[2].finished

-----------------------------------------------------------------------------
(* The server (server/mod.rs).  A call of accept takes what the listener    *)
(* delivers next; a connection is numbered by its place in `conns`, and its *)
(* stream is the owned value of that number: the connection is open until   *)
(* the stream is dropped.                                                   *)

\* bound: the number of accept and next calls of a run
MaxAccepts == 3

\* what a call meets: the TCP accept fails; the TLS handshake of the accepted
\* connection fails; the connection sends a valid upgrade request, another
\* HTTP request, or bytes that are no HTTP request
Incoming == {"tcp_error", "ssl_error", "upgrade", "http", "garbage"}

\* Server { inner, ssl_context }
Server(ssl_context) == [inner |-> "listening", ssl_context |-> ssl_context]

\* InvalidConnection { stream, parsed, error }
InvalidConnection(s, parsed, error) == [stream |-> s, parsed |-> parsed, error |-> error]

\* AcceptResult: Ok(WsUpgrade) is Ok(u), Err(InvalidConnection) is AcceptErr(ic)
AcceptErr(ic) == [kind |-> "Err", msg |-> "", value |-> Some(ic)]

\* the streams an InvalidConnection owns
streams_of(ic) == IF is_some(ic.stream) THEN {unwrap(ic.stream)} ELSE {}

\* WsUpgrade: the stream and the parsed request; nothing has been sent yet
WsUpgrade(s, request) == [stream |-> s, request |-> request]

\* stream.into_ws(): the upgrade for a valid request, else the stream, the
\* request if one was parsed, and the error
into_ws(s, inc) ==
    IF inc = "upgrade" THEN Ok(WsUpgrade(s, inc))
    ELSE [kind |-> "Err", msg |-> "",
          value |-> Some(<<s, IF inc = "http" THEN Some(inc) ELSE None, "hyper">>)]

\* mutant of accept: a rejected connection's stream is dropped, not handed back
accept_drops_stream(n, inc) ==
    IF inc = "tcp_error"
    THEN [res |-> AcceptErr(InvalidConnection(None, None, "io")), dropped |-> {}]
    ELSE LET r == into_ws(n, inc) IN
         IF r.kind = "Ok" THEN [res |-> Ok(unwrap(r.value)), dropped |-> {}]
         ELSE LET t == unwrap(r.value) IN
              [res |-> AcceptErr(InvalidConnection(None, t[2], t[3])), dropped |-> {t[1]}]

\* Server<NoSslContext>::accept, n the stream self.inner.accept() yields: the
\* value returned and the streams dropped during the call
accept(n, inc) ==
    IF inc = "tcp_error"
    THEN [res |-> AcceptErr(InvalidConnection(None, None, "io")), dropped |-> {}]
    ELSE LET r == into_ws(n, inc) IN
         IF r.kind = "Ok" THEN [res |-> Ok(unwrap(r.value)), dropped |-> {}]
         ELSE LET t == unwrap(r.value) IN
              [res |-> AcceptErr(InvalidConnection(Some(t[1]), t[2], t[3])), dropped |-> {}]

\* Server<SslContext>::accept: SslStream::accept takes the stream, which is
\* gone if the handshake fails
accept_ssl(n, inc) ==
    IF inc = "tcp_error"
    THEN [res |-> AcceptErr(InvalidConnection(None, None, "io")), dropped |-> {}]
    ELSE IF inc = "ssl_error"
    THEN [res |-> AcceptErr(InvalidConnection(None, None, "ssl")), dropped |-> {n}]
    ELSE LET r == into_ws(n, inc) IN
         IF r.kind = "Ok" THEN [res |-> Ok(unwrap(r.value)), dropped |-> {}]
         ELSE LET t == unwrap(r.value) IN
              [res |-> AcceptErr(InvalidConnection(Some(t[1]), t[2], t[3])), dropped |-> {}]

\* mutant of ok: the InvalidConnection is not dropped
ok_leaks(a) ==
    IF a.res.kind = "Ok" THEN [res |-> a.res.value, dropped |-> a.dropped]
    ELSE [res |-> None, dropped |-> a.dropped]

\* Result::ok on an AcceptResult: the error, and the stream in it, is dropped
ok(a) ==
    IF a.res.kind = "Ok" THEN [res |-> a.res.value, dropped |-> a.dropped]
    ELSE [res |-> None, dropped |-> a.dropped \cup streams_of(unwrap(a.res.value))]

\* Iterator::next for Server<NoSslContext>: self.accept().ok()
next(n, inc) == ok(accept(n, inc))

\* Iterator::next for Server<SslContext>
next_ssl(n, inc) == ok(accept_ssl(n, inc))

\* a call of fn that met inc returns r: the connection made, if any, what the
\* caller now holds, and the entry of the log
returns(fn, inc, r) ==
    LET n == Len(conns) + 1
        made == inc # "tcp_error"
        u == IF fn = "next" THEN r.res
             ELSE IF r.res.kind = "Ok" THEN r.res.value ELSE None
        ic == IF fn = "accept" /\ r.res.kind = "Err" THEN r.res.value ELSE None
    IN  /\ conns' = IF made
                    THEN Append(conns, [open |-> n \notin r.dropped, response |-> 0,
                                        request |-> inc])
                    ELSE conns
        /\ log' = Append(log, [fn |-> fn, inc |-> inc,
                               conn |-> IF made THEN Some(n) ELSE None,
                               upgrade |-> u, invalid |-> ic])
        /\ upgrades' = upgrades \cup (IF is_some(u) THEN {unwrap(u).stream} ELSE {})
        /\ invalids' = invalids \cup (IF is_some(ic) THEN streams_of(unwrap(ic)) ELSE {})

\* Server::bind(addr)
Bind ==
    /\ server = None
    /\ server' = Some(Server("NoSslContext"))
    /\ UNCHANGED <<conns, log, upgrades, invalids>>
    /\ UNCHANGED <<codecVars, senderVars>>

\* Server::bind_secure(addr, &context)
BindSecure ==
    /\ server = None
    /\ server' = Some(Server("SslContext"))
    /\ UNCHANGED <<conns, log, upgrades, invalids>>
    /\ UNCHANGED <<codecVars, senderVars>>

\* server.accept() on a plain server
Accept ==
    /\ server = Some(Server("NoSslContext"))
    /\ Len(log) < MaxAccepts
    /\ \E inc \in Incoming \ {"ssl_error"} :
        returns("accept", inc, accept(Len(conns) + 1, inc))
    /\ UNCHANGED server
    /\ UNCHANGED <<codecVars, senderVars>>

\* server.accept() on a TLS server
AcceptSsl ==
    /\ server = Some(Server("SslContext"))
    /\ Len(log) < MaxAccepts
    /\ \E inc \in Incoming :
        returns("accept", inc, accept_ssl(Len(conns) + 1, inc))
    /\ UNCHANGED server
    /\ UNCHANGED <<codecVars, senderVars>>

\* server.next() on a plain server
IteratorNext ==
    /\ server = Some(Server("NoSslContext"))
    /\ Len(log) < MaxAccepts
    /\ \E inc \in Incoming \ {"ssl_error"} :
        returns("next", inc, next(Len(conns) + 1, inc))
    /\ UNCHANGED server
    /\ UNCHANGED <<codecVars, senderVars>>

\* server.next() on a TLS server
IteratorNextSsl ==
    /\ server = Some(Server("SslContext"))
    /\ Len(log) < MaxAccepts
    /\ \E inc \in Incoming :
        returns("next", inc, next_ssl(Len(conns) + 1, inc))
    /\ UNCHANGED server
    /\ UNCHANGED <<codecVars, senderVars>>

\* the caller accepts an upgrade it holds: the 101 response is sent
UpgradeAccept ==
    /\ \E c \in upgrades :
        /\ conns[c].response = 0
        /\ conns' = [conns EXCEPT ![c].response = 101]
    /\ UNCHANGED <<server, log, upgrades, invalids>>
    /\ UNCHANGED <<codecVars, senderVars>>

\* the caller drops a WsUpgrade or an InvalidConnection it holds, and with it
\* the stream
DropValue ==
    /\ \E c \in upgrades \cup invalids :
        /\ conns' = [conns EXCEPT ![c].open = FALSE]
        /\ upgrades' = upgrades \ {c}
        /\ invalids' = invalids \ {c}
    /\ UNCHANGED <<server, log>>
    /\ UNCHANGED <<codecVars, senderVars>>

NextServer ==
    \/ Bind
    \/ BindSecure
    \/ Accept
    \/ AcceptSsl
    \/ IteratorNext
    \/ IteratorNextSsl
    \/ UpgradeAccept
    \/ DropValue

SpecServer == Init /\ [][NextServer]_vars

-----------------------------------------------------------------------------
(* Properties of the server, checked under SpecServer.                      *)

IsNextCall == Len(log') = Len(log) + 1 /\ log'[Len(log')].fn = "next"

=============================================================================
